---------------------------- MODULE Spec2Model ----------------------------
(***************************************************************************)
(* WhatsAppBulkSender (src/whatsapp_sender.py) and the send handler of the *)
(* Streamlit page that drives it (src/app.py).                             *)
(*                                                                         *)
(* One sender object is modelled: its fields, the browser processes it has *)
(* launched, the frame of a running send_bulk_messages call, and a clock   *)
(* that advances by the time.sleep calls of the code.                      *)
(*                                                                         *)
(* Three specifications:                                                   *)
(*   Spec       one bulk-send session on a freshly constructed sender, as  *)
(*              app.py runs it (load, optional row range, one run, report) *)
(*   SpecAPI    any sequence of the public methods on one sender object    *)
(*   SpecPhone  format_phone_number applied to every short input string    *)
(***************************************************************************)
EXTENDS Integers, Sequences, FiniteSets, TLC

\* ------------------------------------------------------------------ bounds
MaxContacts == 3      \* rows in the CSV
MaxLen      == 3      \* characters in a phone string given to SpecPhone
MaxRuns     == 1      \* send_bulk_messages calls on one object (SpecAPI)
MaxLaunches == 2      \* browser launches on one object (SpecAPI)
MaxDirect   == 1      \* direct send_message calls on one object (SpecAPI)

\* None, for the fields that otherwise hold a tuple
None == <<>>

\* ------------------------------------------------------ strings as sequences
Whitespace == {" ", "\t"}
Alphabet   == {"9", "1", "5", "+", "-", "(", ")", " ", "\t"}

RECURSIVE StrsOfLen(_)
StrsOfLen(n) ==
    IF n = 0 THEN {<<>>}
    ELSE {Append(s, c) : s \in StrsOfLen(n - 1), c \in Alphabet}

Strs == UNION {StrsOfLen(n) : n \in 0..MaxLen}

RECURSIVE LStrip(_)
LStrip(s) ==
    IF s # <<>> /\ Head(s) \in Whitespace THEN LStrip(Tail(s)) ELSE s

RECURSIVE RStrip(_)
RStrip(s) ==
    IF s # <<>> /\ s[Len(s)] \in Whitespace
    THEN RStrip(SubSeq(s, 1, Len(s) - 1))
    ELSE s

\* str.strip(): leading and trailing whitespace only
Strip(s) == RStrip(LStrip(s))

\* str.replace(c, ''): every occurrence of the character c, wherever it is
Remove(s, c) == SelectSeq(s, LAMBDA x : x # c)

StartsWith(s, prefix) ==
    /\ Len(s) >= Len(prefix)
    /\ SubSeq(s, 1, Len(prefix)) = prefix

format_phone_number(phone) ==
    LET stripped == Strip(phone)
        r == Remove(Remove(Remove(Remove(stripped, "-"), " "), "("), ")")
    IN  IF ~StartsWith(r, <<"+">>)
        THEN IF ~StartsWith(r, <<"9", "1">>)
             THEN <<"+", "9", "1">> \o r
             ELSE <<"+">> \o r
        ELSE r


\* ------------------------------------------------------------ contact data
\* Cell values are sequences of strings, so that substituted messages are too.
Names == <<"Asha", "Ben", "Chen", "Dev", "Eve">>
Cities == <<"Pune", "Goa", "Agra", "Kochi", "Delhi">>

\* Raw phone numbers as they stand in the CSV, one per row.
RawPhone(k) ==
    CASE k % 3 = 1 -> <<"9", "1", " ", "5">>
      [] k % 3 = 2 -> <<"(", "5", ")", "1">>
      [] OTHER     -> <<"+", "1", "5">>

Cell(col, k) ==
    CASE col = "phone_number" -> RawPhone(k)
      [] col = "name"         -> <<Names[k]>>
      [] OTHER                -> <<Cities[k]>>

\* The column sets of the CSV files considered; the last lacks a required one.
ColumnSets == {{"phone_number", "name"},
               {"phone_number", "name", "city"},
               {"phone_number", "city"}}

\* df.to_dict('records'): one mapping per data row, every row with the same keys
Records(cols, n) == [k \in 1..n |-> [c \in cols |-> Cell(c, k)]]

CsvFiles == {[columns |-> cols, rows |-> n] : cols \in ColumnSets, n \in 0..MaxContacts}

\* ---------------------------------------------------------------- templates
Lit(t)   == [kind |-> "lit", text |-> t]
Field(f) == [kind |-> "field", text |-> f]

Templates == {<<Lit("Hello")>>,
              <<Lit("Hi "), Field("name")>>,
              <<Lit("Hi "), Field("name"), Lit(" from "), Field("city")>>}

Placeholders(template) ==
    {template[j].text : j \in {x \in 1..Len(template) : template[x].kind = "field"}}

RECURSIVE Substitute(_, _)
Substitute(template, contact) ==
    IF template = <<>> THEN <<>>
    ELSE LET t == Head(template)
             piece == IF t.kind = "lit" THEN <<t.text>> ELSE contact[t.text]
         IN  piece \o Substitute(Tail(template), contact)

\* message.format(**contact): KeyError when a placeholder is no key of contact
Format(template, contact) ==
    IF Placeholders(template) \subseteq DOMAIN contact
    THEN [ok |-> TRUE, msg |-> Substitute(template, contact)]
    ELSE [ok |-> FALSE, msg |-> <<>>]

\* dict.get(key, default)
Get(contact, key, default) ==
    IF key \in DOMAIN contact THEN contact[key] ELSE default

\* ------------------------------------------------------------------ slicing
Min(a, b) == IF a < b THEN a ELSE b
Max(a, b) == IF a > b THEN a ELSE b

\* A variant whose upper index is exclusive of row `hi`.
PySliceShort(s, lo, hi) == SubSeq(s, Max(lo, 0) + 1, Min(hi, Len(s)) - 1)

\* s[lo:hi] for 0 <= lo, 0 <= hi: the elements at 0-based indices lo .. hi-1
PySlice(s, lo, hi) == SubSeq(s, Max(lo, 0) + 1, Min(hi, Len(s)))

\* ---------------------------------------------------------------- summaries
\* A rate is kept exact, as the fraction num/den; Zero is the literal 0.
Zero == [num |-> 0, den |-> 1]
ZeroDivisionError == [num |-> 0, den |-> 0]

\* a / b * 100 in Python: raises ZeroDivisionError when b = 0
Percent(a, b) ==
    IF b = 0 THEN ZeroDivisionError ELSE [num |-> a * 100, den |-> b]

\* the dict returned by send_bulk_messages
RunSummary(cs, sent, failed) ==
    [total |-> Len(cs), sent |-> Len(sent), failed |-> Len(failed),
     success_rate |-> IF cs # <<>> THEN Percent(Len(sent), Len(cs)) ELSE Zero]

\* A variant without the emptiness guard.
ReportSummaryUnguarded(sent, failed) ==
    [total_sent |-> Len(sent), total_failed |-> Len(failed),
     success_rate |-> Percent(Len(sent), Len(sent) + Len(failed))]

\* the 'summary' of the dict returned by get_report
ReportSummary(sent, failed) ==
    [total_sent |-> Len(sent), total_failed |-> Len(failed),
     success_rate |-> IF sent # <<>> \/ failed # <<>>
                      THEN Percent(Len(sent), Len(sent) + Len(failed))
                      ELSE Zero]

\* -------------------------------------------------------------------- state
VARIABLES
    \* fields of the WhatsAppBulkSender object
    contacts, wait_time, sent_messages, failed_messages, driver,
    \* browser processes: the ones still running, and how many were launched
    live, launches,
    \* frame of the running send_bulk_messages call
    pc, message, delay_seconds, i, exc, auth, runProcs, attempts, finishedAt,
    \* what the last send_bulk_messages / get_report call gave its caller
    result, report,
    \* the clock, advanced by time.sleep alone
    now,
    \* the caller's side: what load_contacts did, the rows it loaded, the row
    \* range chosen on the page, and the calls made so far
    load_state, loaded, row_range, runs, directs,
    \* SpecPhone: an input string and format_phone_number applied once, twice
    phone, once, twice

vars == <<contacts, wait_time, sent_messages, failed_messages, driver,
          live, launches, pc, message, delay_seconds, i, exc, auth, runProcs,
          attempts, finishedAt, result, report, now, load_state, loaded,
          row_range, runs, directs, phone, once, twice>>

objectVars == <<contacts, wait_time, sent_messages, failed_messages, driver>>
frameVars  == <<pc, message, delay_seconds, i, exc, auth, runProcs, attempts,
                finishedAt>>
callerVars == <<load_state, loaded, row_range>>
phoneVars  == <<phone, once, twice>>

WaitTimes    == {0, 2}
DelaySeconds == {0, 5}

OpenOutcomes == {"launch_fails", "auth_fails", "ok"}
SendOutcomes == {"sent", "TimeoutException", "WebDriverException"}

NoSummary == [total |-> 0, sent |-> 0, failed |-> 0, success_rate |-> Zero]
NotCalled == [kind |-> "not_called", why |-> "", summary |-> NoSummary]
ReturnedNone(why) == [kind |-> "None", why |-> why, summary |-> NoSummary]
Returned(summary) == [kind |-> "summary", why |-> "", summary |-> summary]
Raised(e) == [kind |-> "raised", why |-> e, summary |-> NoSummary]

NoReport == [total_sent |-> 0, total_failed |-> 0, success_rate |-> ZeroDivisionError]

\* __init__: wait_time is the constructor's argument
Init ==
    /\ contacts = <<>>
    /\ wait_time \in WaitTimes
    /\ sent_messages = <<>>
    /\ failed_messages = <<>>
    /\ driver = None
    /\ live = {}
    /\ launches = 0
    /\ pc = "idle"
    /\ message = <<>>
    /\ delay_seconds = 0
    /\ i = 0
    /\ exc = "none"
    /\ auth = "none"
    /\ runProcs = {}
    /\ attempts = <<>>
    /\ finishedAt = 0
    /\ result = NotCalled
    /\ report = [called |-> FALSE, summary |-> NoReport]
    /\ now = 0
    /\ load_state = "not_loaded"
    /\ loaded = <<>>
    /\ row_range = None
    /\ runs = 0
    /\ directs = 0
    /\ phone = <<>>
    /\ once = <<>>
    /\ twice = <<>>

\* ------------------------------------------------------------ load_contacts
RequiredCols == {"phone_number", "name"}

LoadedRecords(csv) == Records(csv.columns, csv.rows)

LoadContacts ==
    /\ pc = "idle"
    /\ load_state = "not_loaded"
    /\ \E csv \in CsvFiles, readable \in BOOLEAN :
         \* not readable: pd.read_csv raises (no such file, malformed text)
         IF readable /\ RequiredCols \subseteq csv.columns
         THEN /\ contacts' = LoadedRecords(csv)
              /\ loaded' = LoadedRecords(csv)
              /\ load_state' = "ok"
         ELSE /\ load_state' = "failed"
              /\ UNCHANGED <<contacts, loaded>>
    /\ UNCHANGED <<wait_time, sent_messages, failed_messages, driver, live,
                   launches, frameVars, result, report, now, row_range, runs,
                   directs, phoneVars>>

\* ------------------------------------------------- the page's row-range slice
\* start_row in 1..len(df), end_row in start_row..len(df), then
\* sender.contacts = sender.contacts[start_row-1:end_row]
SelectRange ==
    /\ pc = "idle"
    /\ load_state = "ok"
    /\ row_range = None
    /\ runs = 0
    /\ \E start_row \in 1..Len(contacts) :
         \E end_row \in start_row..Len(contacts) :
            /\ contacts' = PySlice(contacts, start_row - 1, end_row)
            /\ row_range' = <<start_row, end_row>>
    /\ UNCHANGED <<wait_time, sent_messages, failed_messages, driver, live,
                   launches, frameVars, result, report, now, load_state, loaded,
                   runs, directs, phoneVars>>

\* --------------------------------------------------------- open_whatsapp_web
\* The browser launched by webdriver.Chrome is process number launches + 1.
\* launch_fails: webdriver.Chrome raises, self.driver still holds what it held
\* auth_fails:   self.driver is the new process; driver.get or the wait raises
\* ok:           the post-login element appeared within the timeout

\* A variant whose except clause forgets to quit the browser.
OpenNoQuit(drv, lv, pid, outcome) ==
    CASE outcome = "launch_fails" ->
            [driver |-> None, live |-> lv, started |-> {}, ret |-> FALSE]
      [] outcome = "auth_fails" ->
            [driver |-> None, live |-> lv \cup {pid}, started |-> {pid}, ret |-> FALSE]
      [] OTHER ->
            [driver |-> <<pid>>, live |-> lv \cup {pid}, started |-> {pid}, ret |-> TRUE]

open_whatsapp_web(drv, lv, pid, outcome) ==
    CASE outcome = "launch_fails" ->
            \* except: if self.driver: self.driver.quit(); self.driver = None
            [driver |-> None, live |-> lv \ {drv[k] : k \in DOMAIN drv},
             started |-> {}, ret |-> FALSE]
      [] outcome = "auth_fails" ->
            \* self.driver = <new>, then except: quit the new one
            [driver |-> None, live |-> (lv \cup {pid}) \ {pid},
             started |-> {pid}, ret |-> FALSE]
      [] OTHER ->
            [driver |-> <<pid>>, live |-> lv \cup {pid}, started |-> {pid}, ret |-> TRUE]

\* -------------------------------------------------------------- send_message
SentEntry(name, ph, t) ==
    [name |-> name, phone |-> ph, timestamp |-> t, status |-> "sent"]
FailedEntry(name, ph, t, err) ==
    [name |-> name, phone |-> ph, timestamp |-> t, error |-> err]

\* A variant whose except clause logs the failure without recording it.
SendMessageDropsFailure(drv, sent, failed, ph, msg, name, outcome, t, wt) ==
    IF drv = None
    THEN [sent |-> sent, failed |-> failed, ret |-> "False", now |-> t]
    ELSE IF outcome = "sent"
    THEN [sent |-> Append(sent, SentEntry(name, format_phone_number(ph), t)),
          failed |-> failed, ret |-> "True", now |-> t + wt]
    ELSE [sent |-> sent, failed |-> failed, ret |-> "False", now |-> t]

\* A variant without the try/except: an automation exception escapes.
SendMessageRaises(drv, sent, failed, ph, msg, name, outcome, t, wt) ==
    IF drv = None
    THEN [sent |-> sent, failed |-> failed, ret |-> "False", now |-> t]
    ELSE IF outcome = "sent"
    THEN [sent |-> Append(sent, SentEntry(name, format_phone_number(ph), t)),
          failed |-> failed, ret |-> "True", now |-> t + wt]
    ELSE [sent |-> sent, failed |-> failed, ret |-> outcome, now |-> t]

\* ret is "True" or "False"; the method itself lets no Exception escape.
send_message(drv, sent, failed, ph, msg, name, outcome, t, wt) ==
    IF drv = None
    THEN [sent |-> sent, failed |-> failed, ret |-> "False", now |-> t]
    ELSE IF outcome = "sent"
    THEN \* the click went through: record, then time.sleep(self.wait_time)
         [sent |-> Append(sent, SentEntry(name, format_phone_number(ph), t)),
          failed |-> failed, ret |-> "True", now |-> t + wt]
    ELSE \* except Exception: record the raw phone and the error, no sleep
         [sent |-> sent, failed |-> Append(failed, FailedEntry(name, ph, t, outcome)),
          ret |-> "False", now |-> t]

\* -------------------------------------------------------------- close_browser
\* A variant that drops the reference without quitting the browser.
QuitForgets(drv, lv) == [driver |-> None, live |-> lv]

\* if self.driver: self.driver.quit(); self.driver = None
\* (close_browser, and the finally clause of send_bulk_messages)
Quit(drv, lv) ==
    IF drv # None
    THEN [driver |-> None, live |-> lv \ {drv[k] : k \in DOMAIN drv}]
    ELSE [driver |-> drv, live |-> lv]

\* --------------------------------------------------------- send_bulk_messages
\* if i < len(self.contacts): time.sleep(delay_seconds)
LoopDelay(idx, n, d) == IF idx < n THEN d ELSE 0

Running == [kind |-> "running", why |-> "", summary |-> NoSummary]

\* The guard on the contact list and the single open_whatsapp_web call.
SendBulkBegin(limit) ==
    /\ pc = "idle"
    /\ runs < limit
    /\ launches < MaxLaunches
    /\ \E template \in Templates, delay \in DelaySeconds, outcome \in OpenOutcomes :
         /\ message' = template
         /\ delay_seconds' = delay
         /\ IF contacts = <<>>
            THEN /\ result' = ReturnedNone("no_contacts")
                 /\ pc' = "idle"
                 /\ auth' = "none"
                 /\ runProcs' = {}
                 /\ UNCHANGED <<driver, live, launches>>
            ELSE LET o == open_whatsapp_web(driver, live, launches + 1, outcome)
                 IN  /\ driver' = o.driver
                     /\ live' = o.live
                     /\ launches' = launches + Cardinality(o.started)
                     /\ runProcs' = o.started
                     /\ auth' = outcome
                     /\ IF o.ret
                        THEN pc' = "loop" /\ result' = Running
                        ELSE pc' = "idle" /\ result' = ReturnedNone("open_failed")
    /\ runs' = runs + 1
    /\ i' = 0
    /\ exc' = "none"
    /\ attempts' = <<>>
    /\ finishedAt' = now
    /\ UNCHANGED <<contacts, wait_time, sent_messages, failed_messages, report,
                   now, callerVars, directs, phoneVars>>

\* One iteration of the for loop: format, send_message, the pause.
SendBulkIterate ==
    /\ pc = "loop"
    /\ LET contact == contacts[i + 1]
           ph      == Get(contact, "phone_number", <<>>)
           name    == Get(contact, "name", <<"Unknown">>)
           f       == Format(message, contact)
       IN  IF ~f.ok
           THEN \* message.format raises KeyError, outside any try/except
                /\ exc' = "KeyError"
                /\ pc' = "finally"
                /\ UNCHANGED <<sent_messages, failed_messages, i, attempts, now>>
           ELSE \E outcome \in SendOutcomes :
                  LET r == send_message(driver, sent_messages, failed_messages,
                                        ph, f.msg, name, outcome, now, wait_time)
                      raised == r.ret \notin {"True", "False"}
                  IN  /\ sent_messages' = r.sent
                      /\ failed_messages' = r.failed
                      /\ attempts' = Append(attempts,
                             [row |-> i + 1, contact |-> contact, outcome |-> outcome,
                              started |-> now, recorded |-> now])
                      /\ i' = i + 1
                      /\ exc' = IF raised THEN r.ret ELSE "none"
                      /\ now' = IF raised THEN r.now
                                ELSE r.now + LoopDelay(i + 1, Len(contacts), delay_seconds)
                      /\ pc' = IF ~raised /\ i + 1 < Len(contacts)
                               THEN "loop" ELSE "finally"
    /\ UNCHANGED <<contacts, wait_time, driver, live, launches, message,
                   delay_seconds, auth, runProcs, finishedAt, result, report,
                   callerVars, runs, directs, phoneVars>>

\* The finally clause, then the summary (or the pending exception goes on).
SendBulkFinish ==
    /\ pc = "finally"
    /\ LET q == Quit(driver, live)
       IN  /\ driver' = q.driver
           /\ live' = q.live
    /\ result' = IF exc # "none" THEN Raised(exc)
                 ELSE Returned(RunSummary(contacts, sent_messages, failed_messages))
    /\ finishedAt' = now
    /\ pc' = "idle"
    /\ UNCHANGED <<contacts, wait_time, sent_messages, failed_messages, launches,
                   message, delay_seconds, i, exc, auth, runProcs, attempts,
                   report, now, callerVars, runs, directs, phoneVars>>

\* One run per sender object, as the page makes it.
StartSession == SendBulkBegin(1)

\* ------------------------------------------------------------------ get_report
GetReport ==
    /\ pc = "idle"
    /\ report' = [called |-> TRUE,
                  summary |-> ReportSummary(sent_messages, failed_messages)]
    /\ UNCHANGED <<objectVars, live, launches, frameVars, result, now,
                   callerVars, runs, directs, phoneVars>>

Next ==
    \/ LoadContacts
    \/ SelectRange
    \/ StartSession
    \/ SendBulkIterate
    \/ SendBulkFinish
    \/ GetReport

Spec == Init /\ [][Next]_vars

\* ------------------------------------------- the public methods, in any order
SendBulkCall == SendBulkBegin(MaxRuns)

OpenWhatsAppWeb ==
    /\ pc = "idle"
    /\ launches < MaxLaunches
    /\ \E outcome \in OpenOutcomes :
         LET o == open_whatsapp_web(driver, live, launches + 1, outcome)
         IN  /\ driver' = o.driver
             /\ live' = o.live
             /\ launches' = launches + Cardinality(o.started)
    /\ UNCHANGED <<contacts, wait_time, sent_messages, failed_messages,
                   frameVars, result, report, now, callerVars, runs, directs,
                   phoneVars>>

SendMessage ==
    /\ pc = "idle"
    /\ directs < MaxDirect
    /\ \E k \in 1..Len(contacts), outcome \in SendOutcomes :
         LET r == send_message(driver, sent_messages, failed_messages,
                               contacts[k]["phone_number"], <<"Hello">>,
                               contacts[k]["name"], outcome, now, wait_time)
         IN  /\ sent_messages' = r.sent
             /\ failed_messages' = r.failed
             /\ now' = r.now
    /\ directs' = directs + 1
    /\ UNCHANGED <<contacts, wait_time, driver, live, launches, frameVars,
                   result, report, callerVars, runs, phoneVars>>

CloseBrowser ==
    /\ pc = "idle"
    /\ LET q == Quit(driver, live)
       IN  /\ driver' = q.driver
           /\ live' = q.live
    /\ UNCHANGED <<contacts, wait_time, sent_messages, failed_messages, launches,
                   frameVars, result, report, now, callerVars, runs, directs,
                   phoneVars>>

NextAPI ==
    \/ LoadContacts
    \/ SendBulkCall
    \/ SendBulkIterate
    \/ SendBulkFinish
    \/ GetReport
    \/ OpenWhatsAppWeb
    \/ SendMessage
    \/ CloseBrowser

SpecAPI == Init /\ [][NextAPI]_vars

\* --------------------------------------- format_phone_number on its own
InitPhone ==
    /\ contacts = <<>>
    /\ wait_time = 0
    /\ sent_messages = <<>>
    /\ failed_messages = <<>>
    /\ driver = None
    /\ live = {}
    /\ launches = 0
    /\ pc = "phone"
    /\ message = <<>>
    /\ delay_seconds = 0
    /\ i = 0
    /\ exc = "none"
    /\ auth = "none"
    /\ runProcs = {}
    /\ attempts = <<>>
    /\ finishedAt = 0
    /\ result = NotCalled
    /\ report = [called |-> FALSE, summary |-> NoReport]
    /\ now = 0
    /\ load_state = "not_loaded"
    /\ loaded = <<>>
    /\ row_range = None
    /\ runs = 0
    /\ directs = 0
    /\ phone \in Strs
    /\ once = <<>>
    /\ twice = <<>>

FormatOnce ==
    /\ pc = "phone"
    /\ once' = format_phone_number(phone)
    /\ pc' = "once"
    /\ UNCHANGED <<objectVars, live, launches, message, delay_seconds, i, exc,
                   auth, runProcs, attempts, finishedAt, result, report, now,
                   callerVars, runs, directs, phone, twice>>

FormatTwice ==
    /\ pc = "once"
    /\ twice' = format_phone_number(once)
    /\ pc' = "twice"
    /\ UNCHANGED <<objectVars, live, launches, message, delay_seconds, i, exc,
                   auth, runProcs, attempts, finishedAt, result, report, now,
                   callerVars, runs, directs, phone, once>>

NextPhone == FormatOnce \/ FormatTwice

SpecPhone == InitPhone /\ [][NextPhone]_vars

\* ===================================================================== claims
RunReturned == pc = "idle" /\ result.kind = "summary"
RunExited   == pc = "idle" /\ result.kind \in {"None", "summary", "raised"}
Pids(drv)   == {drv[k] : k \in DOMAIN drv}

MissingField(k) == ~(Placeholders(message) \subseteq DOMAIN contacts[k])

\* C2: when the template names a placeholder that a contact's record lacks,
\* that contact is recorded as one Failed outcome, nothing is raised to the
\* caller of send_bulk_messages, and the run goes on to the next contact.
OrigC2 ==
    (pc = "idle" /\ auth = "ok" /\ \E k \in 1..Len(contacts) : MissingField(k)) =>
        /\ result.kind = "summary"
        /\ \A k \in 1..Len(contacts) :
              MissingField(k) =>
                 \E e \in 1..Len(failed_messages) :
                    failed_messages[e].name = contacts[k]["name"]

\* C3: on every exit path of send_bulk_messages (normal completion, an
\* exception escaping the loop, an aborted open) self.driver is None and no
\* browser process started by the run is still running.
ThmC3 ==
    RunExited =>
        /\ driver = None
        /\ runProcs \cap live = {}

\* an exception escaped the send loop of a run that had opened a browser
WitC3 ==
    /\ pc = "idle"
    /\ result.kind = "raised"
    /\ runProcs # {}

\* C4: when the authentication wait of open_whatsapp_web fails (timeout, or a
\* navigation or launch failure) no contact is attempted, sent_messages and
\* failed_messages are as before the call, send_bulk_messages returns None,
\* and no browser started by the call is left running.
ThmC4 ==
    (pc = "idle" /\ auth \in {"launch_fails", "auth_fails"}) =>
        /\ result = ReturnedNone("open_failed")
        /\ attempts = <<>>
        /\ sent_messages = <<>>
        /\ failed_messages = <<>>
        /\ driver = None
        /\ runProcs \cap live = {}

\* the wait timed out on a browser that had been launched, contacts waiting
WitC4 ==
    /\ pc = "idle"
    /\ auth = "auth_fails"
    /\ runProcs # {}
    /\ Len(contacts) >= 2

\* C5: after any sequence of the public operations at most one browser
\* process started by the object is running, and every running one is the
\* one self.driver refers to.
OrigC5 ==
    /\ Cardinality(live) <= 1
    /\ live \subseteq Pids(driver)

\* C6: the pause between recording the outcome for one contact and starting
\* the attempt for the next is delay_seconds whether that outcome was Sent or
\* Failed, and no pause follows the attempt for the last contact.
OrigC6 ==
    /\ \A k \in 1..(Len(attempts) - 1) :
          attempts[k + 1].started - attempts[k].recorded = delay_seconds
    /\ (RunReturned /\ attempts # <<>>) =>
          finishedAt - attempts[Len(attempts)].recorded = 0

\* C7: format_phone_number is idempotent on every string over the digits,
\* '+', the separators, the space and the tab.
OrigC7 == pc = "twice" => twice = once

\* C8: a failure inside send_message never aborts the run: after an
\* authenticated open the contacts are attempted once each, in list order,
\* whatever the earlier outcomes were, no automation exception escapes, and
\* the run ends by returning a summary over the whole list.
ThmC8 ==
    /\ \A k \in 1..Len(attempts) :
          /\ attempts[k].row = k
          /\ attempts[k].contact = contacts[k]
    /\ pc = "loop" => Len(attempts) = i /\ i < Len(contacts)
    /\ result.kind = "raised" => result.why = "KeyError"
    /\ (pc = "idle" /\ auth = "ok" /\ result.kind # "raised") =>
          /\ result.kind = "summary"
          /\ Len(attempts) = Len(contacts)

\* the first contact failed, a later one was still attempted, a summary came
WitC8 ==
    /\ RunReturned
    /\ Len(attempts) >= 2
    /\ attempts[1].outcome # "sent"
    /\ attempts[Len(attempts)].outcome = "sent"

\* C9, as stated: with no contact attempted, the run-level summary and the
\* summary of get_report both show a success rate of exactly 0.
OrigC9 ==
    /\ (pc = "idle" /\ runs > 0 /\ contacts = <<>>) =>
          /\ result.kind = "summary"
          /\ result.summary.success_rate = Zero
    /\ (report.called /\ report.summary.total_sent + report.summary.total_failed = 0) =>
          report.summary.success_rate = Zero

\* C9, amended: with an empty contact list send_bulk_messages returns None
\* without opening a browser, so no run-level summary has a total of 0 and
\* none divides by zero; the summary of get_report has a success rate of
\* exactly 0 when no outcome is recorded, and never divides by zero.
ThmC9 ==
    /\ (pc = "idle" /\ runs > 0 /\ contacts = <<>>) =>
          /\ result = ReturnedNone("no_contacts")
          /\ launches = 0
    /\ result.kind = "summary" =>
          /\ result.summary.total >= 1
          /\ result.summary.success_rate.den = result.summary.total
          /\ result.summary.success_rate.num = 100 * result.summary.sent
    /\ report.called =>
          /\ report.summary.success_rate # ZeroDivisionError
          /\ (report.summary.total_sent + report.summary.total_failed = 0) =>
                report.summary.success_rate = Zero

\* a run over an empty list has returned and get_report was called after it
WitC9 ==
    /\ pc = "idle"
    /\ runs > 0
    /\ contacts = <<>>
    /\ report.called
    /\ report.summary.total_sent + report.summary.total_failed = 0

\* C10: for n loaded contacts and 1 <= start <= end <= n the contacts the run
\* iterates are the loaded contacts at positions start .. end, in load order,
\* and no others; the summary's total is end - start + 1.
ThmC10 ==
    row_range # None =>
        LET start == row_range[1]
            end   == row_range[2]
        IN  /\ Len(contacts) = end - start + 1
            /\ \A k \in 1..Len(contacts) : contacts[k] = loaded[start + k - 1]
            /\ \A k \in 1..Len(attempts) : attempts[k].contact = loaded[start + k - 1]
            /\ RunReturned =>
                  /\ result.summary.total = end - start + 1
                  /\ Len(attempts) = end - start + 1

\* rows 2..3 of a longer list were selected and the run over them returned
WitC10 ==
    /\ row_range = <<2, 3>>
    /\ Len(loaded) >= 3
    /\ RunReturned
    /\ Len(attempts) = 2

=============================================================================
